---------------------------- MODULE Spec2Model ----------------------------
(***************************************************************************)
(* Toxicity screening: the tokenizer and the lazily loaded model of        *)
(* model.js (loadAndPredict, tokenize), the keyword fallback and the       *)
(* classifier wrapper checkToxicityWithModel of App.tsx and                *)
(* YouTubeComments.tsx, App's mount-time warm-up and submit handler, and   *)
(* the sequential batch run loadComments of YouTubeComments.tsx, alone and *)
(* with a changing videoId, and the paging loop fetchYouTubeComments of    *)
(* youtube.ts.                                                             *)
(*                                                                         *)
(* A text is a sequence of one-character strings.  A number the model      *)
(* returns is an exact fraction <<numerator, denominator>>; NaN is <<0,0>>.*)
(* JavaScript runs every piece of code between two awaits without          *)
(* interruption, so each action below is one such piece.  State that only  *)
(* the rendering reads (App's searchHistory and inputText, the             *)
(* showToxicOnly toggle) is left out.                                      *)
(***************************************************************************)
EXTENDS Integers, Sequences, FiniteSets, TLC

VARIABLES
  model,          \* model.js: the module-level `model` ("undefined" | "loaded")
  loadCalls,      \* history: how often tf.loadLayersModel was invoked
  modelWrites,    \* history: how often `model` was assigned
  loadFailed,     \* history: some tf.loadLayersModel promise has rejected
  call,           \* per call site: the loadAndPredict / checkToxicityWithModel promises
  appPc,          \* App.tsx loadModel: "tfReady" | "warmup" | "done"
  appModel,       \* App.tsx state `model`
  modelLoading,   \* App.tsx state `modelLoading`
  modelError,     \* App.tsx state `modelError` (TRUE: the message is set)
  isAnalyzing,    \* App.tsx state `isAnalyzing`
  runPc,          \* per loadComments run: "idle" | "fetching" | "classifying" | "done"
  fetched,        \* per run: fetchedComments
  analyzed,       \* per run: analyzedComments
  published,      \* history, per run: the arguments of its setComments calls
  comments,       \* YouTubeComments state `comments`
  loading,        \* YouTubeComments state `loading`
  error,          \* YouTubeComments state `error` (TRUE: the message is set)
  tokPc,          \* tokenizer harness: "input" | "encoded"
  tokText,        \* tokenizer harness: the inputText given to loadAndPredict
  tokOut,         \* tokenizer harness: the array tokenize hands to tf.tensor2d
  ytPc,           \* fetchYouTubeComments: "awaitFetch" | "returned" | "rejected"
  maxResults,     \* fetchYouTubeComments: the parameter maxResults
  ytComments,     \* fetchYouTubeComments: the local `comments`
  nextPageToken,  \* fetchYouTubeComments: the local nextPageToken (TRUE: a token)
  pageNo          \* history: the number of pages received

appVars == <<model, loadCalls, modelWrites, loadFailed, call, appPc, appModel,
             modelLoading, modelError, isAnalyzing>>
runVars == <<runPc, fetched, analyzed, published, comments, loading, error>>
tokVars == <<tokPc, tokText, tokOut>>
ytVars == <<ytPc, maxResults, ytComments, nextPageToken, pageNo>>
vars == <<appVars, runVars, tokVars, ytVars>>

---------------------------------------------------------------------------
(* Bounds of the model.                                                    *)

\* the longest comment list one fetch returns
MaxItems == 3
\* the longest text built by repeating a unit (more than 20 words)
MaxRep == 22
\* the longest text enumerated character by character
MaxShort == 2
\* the largest maxResults given to fetchYouTubeComments
MaxResults == 3
\* the most pages the API serves for one video
MaxPages == 4

---------------------------------------------------------------------------
(* Strings.                                                                *)

LowerLetters == <<"a","b","c","d","e","f","g","h","i","j","k","l","m",
                  "n","o","p","q","r","s","t","u","v","w","x","y","z">>
UpperLetters == <<"A","B","C","D","E","F","G","H","I","J","K","L","M",
                  "N","O","P","Q","R","S","T","U","V","W","X","Y","Z">>
Digits == {"0","1","2","3","4","5","6","7","8","9"}
Range(s) == {s[i] : i \in 1..Len(s)}

\* String.prototype.toLowerCase, one character
LowerChar(c) ==
  IF \E i \in 1..Len(UpperLetters) : UpperLetters[i] = c
    THEN LowerLetters[CHOOSE i \in 1..Len(UpperLetters) : UpperLetters[i] = c]
    ELSE c

\* String.prototype.toLowerCase
ToLowerCase(text) == [i \in 1..Len(text) |-> LowerChar(text[i])]

\* the regular expression class \w: [A-Za-z0-9_]
IsWordChar(c) == c \in Range(LowerLetters) \cup Range(UpperLetters) \cup Digits \cup {"_"}

\* the regular expression class \s (the members this model's texts use)
IsSpaceChar(c) == c \in {" ", "\t", "\n"}

\* .replace(/[^\w\s]/g, ' ')
ReplaceNonWord(text) ==
  [i \in 1..Len(text) |-> IF IsWordChar(text[i]) \/ IsSpaceChar(text[i]) THEN text[i] ELSE " "]

\* String.prototype.split(' '): the pieces between single space characters,
\* empty pieces kept; the empty string splits into one empty piece
SplitOnSpace(text) ==
  LET spaces == {i \in 1..Len(text) : text[i] = " "}
      \* the position of the k-th space; 0 and Len(text) + 1 enclose the text
      At(k) == IF k = 0 THEN 0
               ELSE IF k > Cardinality(spaces) THEN Len(text) + 1
               ELSE CHOOSE i \in spaces : Cardinality({j \in spaces : j < i}) = k - 1
  IN [k \in 1..(Cardinality(spaces) + 1) |-> SubSeq(text, At(k - 1) + 1, At(k) - 1)]

\* Array.prototype.slice(0, n)
Slice0(arr, n) == SubSeq(arr, 1, IF Len(arr) < n THEN Len(arr) ELSE n)

\* String.prototype.includes
Includes(text, word) ==
  \E i \in 0..(Len(text) - Len(word)) : SubSeq(text, i + 1, i + Len(word)) = word

\* String.prototype.trim() leaves a non-empty string
TrimNonEmpty(text) == \E i \in 1..Len(text) : ~IsSpaceChar(text[i])

---------------------------------------------------------------------------
(* dictionary.js: the vocabulary table (the file is not among the sources; *)
(* modelled from the specification's data model: three reserved control    *)
(* tokens, distinct from each other and from every vocabulary id).         *)

PAD == 0
START == 1
UNKNOWN == 2

\* DICTIONARY.LOOKUP: word -> token id
LOOKUP ==
  (<<"a">> :> 3) @@ (<<"i">> :> 4) @@ (<<"k","i","l","l">> :> 5)

---------------------------------------------------------------------------
(* model.js: the tokenizer.                                                *)

ENCODING_LENGTH == 21

\* loadAndPredict, line 25: lower-case, replace, split on ' '
LowercaseSentenceArray(inputText) ==
  SplitOnSpace(ReplaceNonWord(ToLowerCase(inputText)))

\* a plausible slip: the slice keeps 21 words, not 20
FirstWordsOffByOne(wordArray) == Slice0(wordArray, 21)

\* loadAndPredict, line 28: first 20 words only
FirstWords(wordArray) == Slice0(wordArray, 20)

\* the property names LOOKUP inherits from Object.prototype that a lower-cased
\* word of [a-z0-9_] and whitespace can spell
InheritedKeys == {
  <<"c","o","n","s","t","r","u","c","t","o","r">>,
  <<"_","_","p","r","o","t","o","_","_">>}

\* what LOOKUP[word] yields for an inherited key: an object, which is neither
\* undefined nor a token id
Inherited == -1

\* tokenize, lines 61-62: LOOKUP[word], or UNKNOWN when the lookup is undefined
Encoding(word) ==
  IF word \in DOMAIN LOOKUP THEN LOOKUP[word]
  ELSE IF word \in InheritedKeys THEN Inherited
  ELSE UNKNOWN

\* tokenize, lines 67-69: push PAD while the array is shorter than ENCODING_LENGTH
RECURSIVE PadTo(_)
PadTo(returnArray) ==
  IF Len(returnArray) < ENCODING_LENGTH THEN PadTo(Append(returnArray, PAD))
  ELSE returnArray

\* tokenize: the array handed to tf.tensor2d
tokenize(wordArray) ==
  PadTo(<<START>> \o [i \in 1..Len(wordArray) |-> Encoding(wordArray[i])])

\* loadAndPredict, lines 25-32: the model's input for inputText
EncodedInput(inputText) == tokenize(FirstWords(LowercaseSentenceArray(inputText)))

---------------------------------------------------------------------------
(* App.tsx / YouTubeComments.tsx: the keyword fallback.                    *)

TOXIC_WORDS == {
  <<"s","p","a","m">>,
  <<"s","c","a","m">>,
  <<"h","a","t","e">>,
  <<"i","d","i","o","t">>,
  <<"s","t","u","p","i","d">>,
  <<"d","u","m","b">>,
  <<"f","o","o","l">>,
  <<"j","e","r","k">>,
  <<"r","a","c","i","s","t">>,
  <<"k","i","l","l">>,
  <<"d","i","e">>,
  <<"a","t","t","a","c","k">>,
  <<"t","h","r","e","a","t">>,
  <<"a","b","u","s","e">>,
  <<"o","f","f","e","n","s","i","v","e">>,
  <<"v","i","o","l","e","n","t">>,
  <<"n","a","s","t","y">>,
  <<"h","o","r","r","i","b","l","e">>,
  <<"t","e","r","r","i","b","l","e">>
}

\* checkToxicityFallback: TOXIC_WORDS.some(word => lowerText.includes(word))
checkToxicityFallback(text) ==
  \E word \in TOXIC_WORDS : Includes(ToLowerCase(text), word)

---------------------------------------------------------------------------
(* The tokenizer on its own: loadAndPredict's lines 25-32 applied to one   *)
(* input text.                                                             *)

\* the characters the enumerated texts are built from: a letter, an upper-case
\* letter, punctuation, the space, another whitespace character, the underscore
SampleChars == {"a", "K", "!", " ", "\t", "_"}

\* every text of exactly n sample characters
RECURSIVE TextsOfLen(_)
TextsOfLen(n) ==
  IF n = 0 THEN {<<>>}
  ELSE {Append(t, c) : t \in TextsOfLen(n - 1), c \in SampleChars}

ShortTexts == UNION {TextsOfLen(n) : n \in 0..MaxShort}

\* unit repeated n times
Rep(unit, n) == [i \in 1..(n * Len(unit)) |-> unit[((i - 1) % Len(unit)) + 1]]

\* the units of the long texts: a word and a space, a lone space, a word
\* followed by punctuation, a word and a tab, a lone letter
Units == {<<"a", " ">>, <<" ">>, <<"K", "i", "l", "l", "!">>, <<"a", "\t">>, <<"a">>}

LongTexts == {Rep(u, n) : u \in Units, n \in 0..MaxRep}

\* two words separated by a tab, and words that name properties every object
\* inherits
SpecialTexts == {
  <<"a", "\t", "K", "i", "l", "l">>,
  <<"C","o","n","s","t","r","u","c","t","o","r","!">>,
  <<"a"," ","_","_","p","r","o","t","o","_","_">>}

Texts == ShortTexts \cup LongTexts \cup SpecialTexts

\* the state of the application while only the tokenizer runs
AppIdle ==
  /\ model = "undefined" /\ loadCalls = 0 /\ modelWrites = 0 /\ loadFailed = FALSE
  /\ call = <<>> /\ appPc = "off" /\ appModel = FALSE /\ modelLoading = TRUE
  /\ modelError = FALSE /\ isAnalyzing = FALSE
  /\ runPc = <<>> /\ fetched = <<>> /\ analyzed = <<>> /\ published = <<>>
  /\ comments = <<>> /\ loading = TRUE /\ error = FALSE

\* no fetchYouTubeComments call is being followed
YtIdle ==
  /\ ytPc = "off" /\ maxResults = 0 /\ ytComments = <<>>
  /\ nextPageToken = FALSE /\ pageNo = 0

TokInit ==
  /\ AppIdle
  /\ YtIdle
  /\ tokPc = "input"
  /\ tokText \in Texts
  /\ tokOut = <<>>

\* loadAndPredict, lines 25-32, up to the call of tf.tensor2d
TokEncode ==
  /\ tokPc = "input"
  /\ tokOut' = EncodedInput(tokText)
  /\ tokPc' = "encoded"
  /\ UNCHANGED <<tokText, appVars, runVars, ytVars>>

TokNext == TokEncode

TokSpec == TokInit /\ [][TokNext]_vars

\* C10: for every input text (empty, shorter than, equal to or longer than 20
\* words) the integer sequence handed to the model has length exactly 21.
C10_EncodingLength == tokPc = "encoded" => Len(tokOut) = ENCODING_LENGTH

\* an input of more than 20 words has been encoded
C10_Witness ==
  /\ tokPc = "encoded"
  /\ Len(LowercaseSentenceArray(tokText)) > 20
  /\ Len(tokOut) = 21

\* the normalized form as C11 words it: lower-cased, every character that is
\* neither alphanumeric nor whitespace replaced by a space
NormalizedAsStated(text) ==
  [i \in 1..Len(text) |->
     LET c == LowerChar(text[i])
     IN IF c \in Range(LowerLetters) \cup Digits \/ IsSpaceChar(c) THEN c ELSE " "]

\* the positions of text holding a whitespace character
WhitespaceAt(text) == {i \in 1..Len(text) : IsSpaceChar(text[i])}

\* text split at every whitespace character (space, tab or newline), empty
\* pieces kept
SplitOnWhitespace(text) ==
  LET cuts == WhitespaceAt(text)
      bound(k) == IF k = 0 THEN 0
                  ELSE IF k = Cardinality(cuts) + 1 THEN Len(text) + 1
                  ELSE CHOOSE i \in cuts : Cardinality({j \in cuts : j < i}) = k - 1
  IN [k \in 1..(Cardinality(cuts) + 1) |->
        SubSeq(text, bound(k - 1) + 1, bound(k) - 1)]

\* the vocabulary id of a word, UNKNOWN for a word that is not a key
IdOf(word) == IF word \in DOMAIN LOOKUP THEN LOOKUP[word] ELSE UNKNOWN

\* C11: for every text whose normalized form splits on whitespace (space, tab,
\* newline) into N <= 20 words, the encoding is START, the ids of the N words
\* in order, then 20 - N PADs.
C11_WordsThenPads ==
  tokPc = "encoded" =>
    LET words == SplitOnWhitespace(NormalizedAsStated(tokText))
        N == Len(words)
    IN N <= 20 =>
         tokOut = <<START>> \o [i \in 1..N |-> IdOf(words[i])]
                            \o [i \in 1..(20 - N) |-> PAD]

\* C12: the encoding of the empty string is START followed by exactly twenty
\* PADs, with no UNKNOWN in it.
C12_EmptyIsAllPad ==
  (tokPc = "encoded" /\ tokText = <<>>) =>
    tokOut = <<START>> \o [i \in 1..20 |-> PAD]

\* C13: every word that is not a key of the vocabulary is encoded as UNKNOWN,
\* the empty word and the words that name built-in properties included.
C13_UnknownForNonKeys ==
  tokPc = "encoded" =>
    LET words == FirstWords(LowercaseSentenceArray(tokText))
    IN \A i \in 1..Len(words) :
         words[i] \notin DOMAIN LOOKUP => tokOut[i + 1] = UNKNOWN

---------------------------------------------------------------------------
(* youtube.ts: fetchYouTubeComments on its own.  A fetched item is          *)
(* <<page, index>>: the number of the page it came on and its place there.  *)

\* the items of a page
PageItems(page, size) == [i \in 1..size |-> <<page, i>>]

YtInit ==
  /\ AppIdle
  /\ tokPc = "off" /\ tokText = <<>> /\ tokOut = <<>>
  /\ ytPc = "awaitFetch"
  /\ maxResults \in 1..MaxResults
  /\ ytComments = <<>>
  /\ nextPageToken = FALSE
  /\ pageNo = 0

\* line 84: while (nextPageToken && comments.length < maxResults)
LoopAgain(token, length) == token /\ length < maxResults

\* lines 50-86: the request is answered with a page of `size` items (the API
\* serves at most maxResults items a page) and, when token, a nextPageToken;
\* the page is appended and the loop goes on or the function returns
PageResolve(size, token) ==
  /\ ytPc = "awaitFetch"
  /\ pageNo < MaxPages
  /\ token => pageNo + 1 < MaxPages
  /\ pageNo' = pageNo + 1
  /\ ytComments' = ytComments \o PageItems(pageNo + 1, size)
  /\ nextPageToken' = token
  /\ ytPc' = IF LoopAgain(token, Len(ytComments')) THEN "awaitFetch" ELSE "returned"
  /\ UNCHANGED <<maxResults, appVars, runVars, tokVars>>

\* lines 62-68, 88-91: fetch rejects or the response is not ok; the error is
\* logged and thrown again
PageReject ==
  /\ ytPc = "awaitFetch"
  /\ ytPc' = "rejected"
  /\ UNCHANGED <<maxResults, ytComments, nextPageToken, pageNo, appVars, runVars,
                 tokVars>>

YtNext ==
  \/ \E size \in 0..maxResults, token \in BOOLEAN : PageResolve(size, token)
  \/ PageReject

YtSpec == YtInit /\ [][YtNext]_vars

\* a is an item of an earlier page than b, or an earlier item of the same page
Before(a, b) == a[1] < b[1] \/ (a[1] = b[1] /\ a[2] < b[2])

\* the items received so far, page after page
InPageOrder ==
  \A j, k \in 1..Len(ytComments) : j < k => Before(ytComments[j], ytComments[k])

\* C15: fetchYouTubeComments(videoId, maxResults) returns the items of the
\* pages concatenated in page order and never more than maxResults of them,
\* whatever the page sizes and nextPageToken values are.
C15_AtMostMaxResults ==
  ytPc = "returned" => (InPageOrder /\ Len(ytComments) <= maxResults)

---------------------------------------------------------------------------
(* Numbers: exact fractions <<numerator, denominator>>.  The model's       *)
(* outputs are float32 probabilities; the products with 100 the code       *)
(* compares with 50 are exact for the values used here.                    *)

NaN == <<0, 0>>
Zero == <<0, 1>>

\* x * 100 (undefined * 100 and NaN * 100 are NaN)
Times100(x) == <<x[1] * 100, x[2]>>

\* x > n for an integer n (false when x is NaN)
GreaterThan(x, n) == x[2] > 0 /\ x[1] > n * x[2]

\* the probabilities the model may put at index 1 of its output: the
\* threshold itself and a value just above it
Probs == {<<1, 2>>, <<51, 100>>}

\* what model.predict(...) and results.dataSync() may do in one call: throw,
\* return a vector that has no index 1, return a vector with p at index 1
PredictOutcomes ==
  {[kind |-> "throws", p |-> NaN], [kind |-> "short", p |-> NaN]}
    \cup {[kind |-> "prob", p |-> q] : q \in Probs}

\* predict runs within the current piece of code only if the model is there
NoOutcome == [kind |-> "none", p |-> NaN]
OutcomesNow == IF model = "loaded" THEN PredictOutcomes ELSE {NoOutcome}

---------------------------------------------------------------------------
(* Call sites.  Each holds the promise of its loadAndPredict call (lap)    *)
(* and of the checkToxicityWithModel call around it (ctm).                 *)

\* the videoIds the YouTubeComments component is given, in order
Runs == {1, 2}

\* App's warm-up call loadAndPredict("test") and App's handleSubmit
Warm == <<0, 0>>
Sub == <<0, 1>>
BatchCalls == Runs \X (1..MaxItems)
CallIds == {Warm, Sub} \cup BatchCalls

NoCall ==
  [lap |-> "none", ctm |-> "none", text |-> <<>>, outcome |-> "none",
   dataArray1 |-> NaN, toxicityLevel |-> NaN,
   isToxic |-> FALSE, toxicityScore |-> NaN, tensors |-> 0]

\* model.js loadAndPredict, lines 25-45: tokenize, predict, read index 1,
\* multiply by 100; an exception rejects the promise.  tensors counts the
\* tensors the call has allocated and not disposed of when it completes:
\* tokenize allocates the input tensor (line 75) and model.predict, when it
\* returns, the output tensor (line 32); no line disposes of either.  A throw
\* is model.predict's, after its argument was built.
Predict(rec, o) ==
  IF o.kind = "throws"
    THEN [rec EXCEPT !.lap = "rejected", !.outcome = "predictThrows",
                     !.tensors = 1]
    ELSE [rec EXCEPT !.lap = "fulfilled", !.outcome = o.kind,
                     !.dataArray1 = o.p, !.toxicityLevel = Times100(o.p),
                     !.tensors = 2]

\* model.js loadAndPredict, lines 17-20, up to its first suspension: with no
\* model the call invokes tf.loadLayersModel and waits; with a model it runs
\* through to its return
loadAndPredictBegin(text, o) ==
  LET rec == [NoCall EXCEPT !.text = text] IN
  IF model = "undefined" THEN [rec EXCEPT !.lap = "awaitLoad"] ELSE Predict(rec, o)

\* a slip: no try/catch around the await, the rejection propagates
CheckSettleNoCatch(rec) ==
  IF rec.lap = "fulfilled"
    THEN [rec EXCEPT !.ctm = "resolved",
                     !.isToxic = GreaterThan(rec.toxicityLevel, 50),
                     !.toxicityScore = rec.toxicityLevel]
    ELSE [rec EXCEPT !.ctm = "rejected"]

\* a slip: the threshold is not strict
CheckSettleAtLeast50(rec) ==
  IF rec.lap = "fulfilled"
    THEN [rec EXCEPT !.ctm = "resolved",
                     !.isToxic = GreaterThan(rec.toxicityLevel, 49),
                     !.toxicityScore = rec.toxicityLevel]
    ELSE [rec EXCEPT !.ctm = "resolved",
                     !.isToxic = checkToxicityFallback(rec.text),
                     !.toxicityScore = Zero]

\* YouTubeComments.tsx checkToxicityWithModel, lines 40-57, after the await:
\* the score and score > 50, or in the catch the fallback and 0
checkToxicityWithModel(rec) ==
  IF rec.lap = "fulfilled"
    THEN [rec EXCEPT !.ctm = "resolved",
                     !.isToxic = GreaterThan(rec.toxicityLevel, 50),
                     !.toxicityScore = rec.toxicityLevel]
    ELSE [rec EXCEPT !.ctm = "resolved",
                     !.isToxic = checkToxicityFallback(rec.text),
                     !.toxicityScore = Zero]

\* App.tsx checkToxicityWithModel, lines 88-105, after the await
checkToxicityWithModelApp(rec) ==
  IF rec.lap = "fulfilled"
    THEN [rec EXCEPT !.ctm = "resolved",
                     !.isToxic = GreaterThan(rec.toxicityLevel, 50),
                     !.toxicityScore = rec.toxicityLevel]
    ELSE [rec EXCEPT !.ctm = "resolved",
                     !.isToxic = checkToxicityFallback(rec.text),
                     !.toxicityScore = Zero]

\* App.tsx checkToxicityWithModel, lines 81-86: without the `model` state the
\* fallback is returned and loadAndPredict is not called
AppCheckNoModel(text) ==
  [NoCall EXCEPT !.text = text, !.ctm = "resolved",
                 !.outcome = "notLoaded",
                 !.isToxic = checkToxicityFallback(text), !.toxicityScore = Zero]

\* App.tsx loadModel, line 47: the value of loadAndPredict("test") is not
\* used, only whether the promise fulfils or rejects
Discarded(rec) ==
  IF rec.lap = "awaitLoad" THEN rec
  ELSE [NoCall EXCEPT !.lap = rec.lap, !.tensors = rec.tensors]

\* the loadAndPredict promise of call site c, settled with outcome o
Settled(c, o) == IF c = Warm THEN Discarded(Predict(call[c], o)) ELSE Predict(call[c], o)

\* the number of tf.loadLayersModel invocations k beginning calls make
LoadsBegun(k) == IF model = "undefined" THEN k ELSE 0

---------------------------------------------------------------------------
(* The tf.loadLayersModel promise of a suspended loadAndPredict call.      *)

\* model.js line 19 resumes: `model` is assigned, the call runs to its return
LoadResolve(c) ==
  /\ call[c].lap = "awaitLoad"
  /\ \E o \in PredictOutcomes :
       call' = [call EXCEPT ![c] = Settled(c, o)]
  /\ model' = "loaded"
  /\ modelWrites' = modelWrites + 1
  /\ UNCHANGED <<loadCalls, loadFailed, appPc, appModel, modelLoading, modelError,
                 isAnalyzing, runVars, tokVars, ytVars>>

\* model.js line 19 throws: the loadAndPredict promise rejects
LoadReject(c) ==
  /\ call[c].lap = "awaitLoad"
  /\ call' = [call EXCEPT ![c] = IF c = Warm THEN Discarded([@ EXCEPT !.lap = "rejected"])
                                  ELSE [@ EXCEPT !.lap = "rejected", !.outcome = "loadRejected"]]
  /\ loadFailed' = TRUE
  /\ UNCHANGED <<model, loadCalls, modelWrites, appPc, appModel, modelLoading,
                 modelError, isAnalyzing, runVars, tokVars, ytVars>>

---------------------------------------------------------------------------
(* App.tsx.                                                                *)

\* the text of the warm-up call
TestText == <<"t", "e", "s", "t">>

\* the texts typed into the form
AppTexts == {<<"o", "k">>, <<"S", "K", "I", "L", "L", "S">>, <<" ">>}

\* loadModel, lines 45-47: tf.ready() resolves and loadAndPredict("test") begins
TfReadyResolve ==
  /\ appPc = "tfReady"
  /\ \E o \in OutcomesNow :
       call' = [call EXCEPT ![Warm] = Discarded(loadAndPredictBegin(TestText, o))]
  /\ loadCalls' = loadCalls + LoadsBegun(1)
  /\ appPc' = "warmup"
  /\ UNCHANGED <<model, modelWrites, loadFailed, appModel, modelLoading, modelError,
                 isAnalyzing, runVars, tokVars, ytVars>>

\* loadModel, lines 52-56: tf.ready() rejects
TfReadyReject ==
  /\ appPc = "tfReady"
  /\ appPc' = "done"
  /\ modelError' = TRUE
  /\ modelLoading' = FALSE
  /\ UNCHANGED <<model, loadCalls, modelWrites, loadFailed, call, appModel,
                 isAnalyzing, runVars, tokVars, ytVars>>

\* loadModel, lines 47-56, after the await of loadAndPredict("test")
WarmResume ==
  /\ appPc = "warmup"
  /\ call[Warm].lap \in {"fulfilled", "rejected"}
  /\ appPc' = "done"
  /\ appModel' = (call[Warm].lap = "fulfilled")
  /\ modelError' = (call[Warm].lap = "rejected")
  /\ modelLoading' = FALSE
  /\ call' = [call EXCEPT ![Warm] = NoCall]
  /\ UNCHANGED <<model, loadCalls, modelWrites, loadFailed, isAnalyzing,
                 runVars, tokVars, ytVars>>

\* handleSubmit, lines 108-116, up to the await: the form is enabled only
\* while isAnalyzing is false (lines 215, 221)
Submit(text) ==
  /\ ~isAnalyzing
  /\ TrimNonEmpty(text)
  /\ isAnalyzing' = TRUE
  /\ \E o \in (IF appModel THEN OutcomesNow ELSE {NoOutcome}) :
       call' = [call EXCEPT ![Sub] =
                  IF ~appModel THEN AppCheckNoModel(text)
                  ELSE [loadAndPredictBegin(text, o) EXCEPT !.ctm = "pending"]]
  /\ loadCalls' = loadCalls + (IF appModel THEN LoadsBegun(1) ELSE 0)
  /\ UNCHANGED <<model, modelWrites, loadFailed, appPc, appModel, modelLoading,
                 modelError, runVars, tokVars, ytVars>>

\* App's checkToxicityWithModel resumes after its await
SubmitCheckResume ==
  /\ call[Sub].ctm = "pending"
  /\ call[Sub].lap \in {"fulfilled", "rejected"}
  /\ call' = [call EXCEPT ![Sub] = checkToxicityWithModelApp(call[Sub])]
  /\ UNCHANGED <<model, loadCalls, modelWrites, loadFailed, appPc, appModel,
                 modelLoading, modelError, isAnalyzing,
                 runVars, tokVars, ytVars>>

\* handleSubmit, lines 116-144, after the await: the entry goes to the
\* history (not part of this model), finally setIsAnalyzing(false)
SubmitResume ==
  /\ isAnalyzing
  /\ call[Sub].ctm \in {"resolved", "rejected"}
  /\ isAnalyzing' = FALSE
  /\ call' = [call EXCEPT ![Sub] = NoCall]
  /\ UNCHANGED <<model, loadCalls, modelWrites, loadFailed, appPc, appModel,
                 modelLoading, modelError, runVars, tokVars, ytVars>>

---------------------------------------------------------------------------
(* YouTubeComments.tsx: loadComments, one run per videoId.                 *)

\* the comment texts a fetch returns: one that holds a toxic word in upper
\* case inside a longer word, and the empty text
BatchTexts == << <<"K", "I", "L", "L", "s">>, <<>> >>

\* fetchYouTubeComments(videoId) resolves to a list of up to MaxItems
\* comments; the i-th comment of run r has id <<r, i>>, the two texts alternate
CommentLists(r) ==
  {[i \in 1..n |-> [id |-> <<r, i>>, text |-> BatchTexts[((i + 1) % 2) + 1]]] :
     n \in 0..MaxItems}

\* lines 70-74 and 90-94: a comment not yet analyzed
Pending(comment) ==
  [id |-> comment.id, text |-> comment.text, isToxic |-> FALSE,
   hasScore |-> FALSE, toxicityScore |-> NaN, isAnalyzing |-> TRUE]

\* a slip: the isAnalyzing flag of an analyzed comment is not cleared
AnalyzedFlagKept(comment, result) ==
  [id |-> comment.id, text |-> comment.text, isToxic |-> result.isToxic,
   hasScore |-> TRUE, toxicityScore |-> result.toxicityScore, isAnalyzing |-> TRUE]

\* lines 82-87: a comment with its result
Analyzed(comment, result) ==
  [id |-> comment.id, text |-> comment.text, isToxic |-> result.isToxic,
   hasScore |-> TRUE, toxicityScore |-> result.toxicityScore, isAnalyzing |-> FALSE]

\* a slip: only the analyzed comments are published, the others get lost
SnapshotAnalyzedOnly(done, all) == done

\* line 90: [...analyzedComments, ...fetchedComments.slice(analyzedComments.length).map(...)]
Snapshot(done, all) ==
  done \o [j \in 1..(Len(all) - Len(done)) |-> Pending(all[Len(done) + j])]

\* a slip: the classifications are not awaited one by one, all begin at once
ItemsBegunAfterFetchAll(n) == 1..n

\* line 80-81: the loop's first iteration begins the first comment's classification
ItemsBegunAfterFetch(n) == IF n >= 1 THEN {1} ELSE {}

\* lines 80-81: after comment i the loop's next iteration begins comment i + 1
ItemsBegunAfterItem(i, n) == IF i < n THEN {i + 1} ELSE {}

\* checkToxicityWithModel(comment.text) begins for the comments `begun` of run r
BeginBatchCalls(r, list, begun, o) ==
  /\ call' = [c \in CallIds |->
                IF c[1] = r /\ c[2] \in begun
                  THEN [loadAndPredictBegin(list[c[2]].text, o) EXCEPT !.ctm = "pending"]
                  ELSE call[c]]
  /\ loadCalls' = loadCalls + LoadsBegun(Cardinality(begun))

\* useEffect, lines 60-66: the component gets its videoId; setLoading(true),
\* the fetch begins
Mount(r) ==
  /\ runPc[r] = "idle"
  /\ \A q \in Runs : q < r => runPc[q] # "idle"
  /\ runPc' = [runPc EXCEPT ![r] = "fetching"]
  /\ loading' = TRUE
  /\ UNCHANGED <<appVars, fetched, analyzed, published, comments, error, tokVars, ytVars>>

\* lines 66-81 (and 100-102 for an empty list): the fetch resolves, the
\* comments are published as analyzing, the first classification begins
FetchResolve(r) ==
  /\ runPc[r] = "fetching"
  /\ \E list \in CommentLists(r), o \in OutcomesNow :
       /\ fetched' = [fetched EXCEPT ![r] = list]
       /\ comments' = Snapshot(<<>>, list)
       /\ published' = [published EXCEPT ![r] = Append(@, Snapshot(<<>>, list))]
       /\ BeginBatchCalls(r, list, ItemsBegunAfterFetch(Len(list)), o)
       /\ runPc' = [runPc EXCEPT ![r] = IF Len(list) = 0 THEN "done" ELSE "classifying"]
       /\ loading' = IF Len(list) = 0 THEN FALSE ELSE loading
  /\ UNCHANGED <<model, modelWrites, loadFailed, appPc, appModel, modelLoading,
                 modelError, isAnalyzing, analyzed, error,
                 tokVars, ytVars>>

\* lines 97-102: the fetch rejects
FetchReject(r) ==
  /\ runPc[r] = "fetching"
  /\ runPc' = [runPc EXCEPT ![r] = "done"]
  /\ error' = TRUE
  /\ loading' = FALSE
  /\ UNCHANGED <<appVars, fetched, analyzed, published, comments, tokVars, ytVars>>

\* YouTubeComments' checkToxicityWithModel resumes after its await
BatchCheckResume(c) ==
  /\ c \in BatchCalls
  /\ call[c].ctm = "pending"
  /\ call[c].lap \in {"fulfilled", "rejected"}
  /\ call' = [call EXCEPT ![c] = checkToxicityWithModel(call[c])]
  /\ UNCHANGED <<model, loadCalls, modelWrites, loadFailed, appPc, appModel,
                 modelLoading, modelError, isAnalyzing,
                 runVars, tokVars, ytVars>>

\* lines 81-102, after the await of checkToxicityWithModel for the next
\* comment: push the result, publish, begin the next classification or leave
\* the loop (finally: setLoading(false)); a rejection goes to the catch
BatchResume(r) ==
  LET i == Len(analyzed[r]) + 1
      n == Len(fetched[r])
  IN
  /\ runPc[r] = "classifying"
  /\ i <= n
  /\ call[<<r, i>>].ctm \in {"resolved", "rejected"}
  /\ IF call[<<r, i>>].ctm = "rejected"
       THEN /\ error' = TRUE
            /\ loading' = FALSE
            /\ runPc' = [runPc EXCEPT ![r] = "done"]
            /\ UNCHANGED <<call, loadCalls, analyzed, published, comments>>
       ELSE LET now == Append(analyzed[r], Analyzed(fetched[r][i], call[<<r, i>>])) IN
            /\ analyzed' = [analyzed EXCEPT ![r] = now]
            /\ comments' = Snapshot(now, fetched[r])
            /\ published' = [published EXCEPT ![r] = Append(@, Snapshot(now, fetched[r]))]
            /\ \E o \in OutcomesNow :
                 BeginBatchCalls(r, fetched[r], ItemsBegunAfterItem(i, n), o)
            /\ runPc' = [runPc EXCEPT ![r] = IF i < n THEN "classifying" ELSE "done"]
            /\ loading' = IF i < n THEN loading ELSE FALSE
            /\ UNCHANGED error
  /\ UNCHANGED <<model, modelWrites, loadFailed, appPc, appModel, modelLoading,
                 modelError, isAnalyzing, fetched, tokVars, ytVars>>

---------------------------------------------------------------------------
(* The application: App is mounted and awaits tf.ready(); YouTubeComments  *)
(* is not yet mounted.                                                     *)

Init ==
  /\ model = "undefined"
  /\ loadCalls = 0
  /\ modelWrites = 0
  /\ loadFailed = FALSE
  /\ call = [c \in CallIds |-> NoCall]
  /\ appPc = "tfReady"
  /\ appModel = FALSE
  /\ modelLoading = TRUE
  /\ modelError = FALSE
  /\ isAnalyzing = FALSE
  /\ runPc = [r \in Runs |-> "idle"]
  /\ fetched = [r \in Runs |-> <<>>]
  /\ analyzed = [r \in Runs |-> <<>>]
  /\ published = [r \in Runs |-> <<>>]
  /\ comments = <<>>
  /\ loading = TRUE
  /\ error = FALSE
  /\ tokPc = "off"
  /\ tokText = <<>>
  /\ tokOut = <<>>
  /\ YtIdle

\* the steps the event loop takes by itself
Progress ==
  \/ \E c \in CallIds : LoadResolve(c)
  \/ \E c \in CallIds : LoadReject(c)
  \/ TfReadyResolve
  \/ TfReadyReject
  \/ WarmResume
  \/ SubmitCheckResume
  \/ SubmitResume
  \/ \E r \in Runs : FetchResolve(r)
  \/ \E r \in Runs : FetchReject(r)
  \/ \E c \in BatchCalls : BatchCheckResume(c)
  \/ \E r \in Runs : BatchResume(r)

\* YouTubeComments is mounted with one videoId, which does not change
Next ==
  \/ Progress
  \/ \E text \in AppTexts : Submit(text)
  \/ Mount(1)

Spec == Init /\ [][Next]_vars

\* the event loop runs every continuation that is ready, and every
\* tf.loadLayersModel and fetch promise is settled at some time
FairSpec ==
  /\ Spec
  /\ \A c \in CallIds : WF_vars(LoadResolve(c) \/ LoadReject(c))
  /\ \A c \in BatchCalls : WF_vars(BatchCheckResume(c))
  /\ \A r \in Runs : WF_vars(FetchResolve(r) \/ FetchReject(r))
  /\ \A r \in Runs : WF_vars(BatchResume(r))

---------------------------------------------------------------------------
(* YouTubeComments on its own, its videoId changing: the effect of line 60 *)
(* runs again for the new videoId (line 106) while nothing stops the run   *)
(* begun for the old one.  App is not mounted.                             *)

NavInit ==
  /\ model = "undefined"
  /\ loadCalls = 0
  /\ modelWrites = 0
  /\ loadFailed = FALSE
  /\ call = [c \in CallIds |-> NoCall]
  /\ appPc = "off"
  /\ appModel = FALSE
  /\ modelLoading = TRUE
  /\ modelError = FALSE
  /\ isAnalyzing = FALSE
  /\ runPc = [r \in Runs |-> "idle"]
  /\ fetched = [r \in Runs |-> <<>>]
  /\ analyzed = [r \in Runs |-> <<>>]
  /\ published = [r \in Runs |-> <<>>]
  /\ comments = <<>>
  /\ loading = TRUE
  /\ error = FALSE
  /\ tokPc = "off"
  /\ tokText = <<>>
  /\ tokOut = <<>>
  /\ YtIdle

NavNext ==
  \/ \E r \in Runs : Mount(r)
  \/ \E c \in BatchCalls : LoadResolve(c)
  \/ \E c \in BatchCalls : LoadReject(c)
  \/ \E r \in Runs : FetchResolve(r)
  \/ \E r \in Runs : FetchReject(r)
  \/ \E c \in BatchCalls : BatchCheckResume(c)
  \/ \E r \in Runs : BatchResume(r)

NavSpec == NavInit /\ [][NavNext]_vars

---------------------------------------------------------------------------
(* Properties.                                                             *)

\* the call sites of checkToxicityWithModel
CheckCalls == {Sub} \cup BatchCalls

\* the fetch of run r has resolved (the first setComments has happened)
FetchOk(r) == published[r] # <<>>

\* C1: checkToxicityWithModel, in App and in YouTubeComments, never rejects:
\* whatever loading and inference do, the call resolves to a result.
C1_NeverRejects ==
  \A c \in CheckCalls :
    /\ call[c].ctm # "rejected"
    /\ call[c].lap = "rejected" => call[c].ctm \in {"pending", "resolved"}

\* a load rejection, a predict exception and an output without index 1 have
\* each ended in a resolved call, on the batch path and on App's path
C1_Witness ==
  /\ \E c \in BatchCalls : call[c].ctm = "resolved" /\ call[c].outcome = "loadRejected"
  /\ \E c \in BatchCalls : call[c].ctm = "resolved" /\ call[c].outcome = "short"
  /\ \E c \in BatchCalls : call[c].ctm = "resolved" /\ call[c].outcome = "predictThrows"
  /\ call[Sub].ctm = "resolved" /\ call[Sub].outcome = "predictThrows"

\* C2: within one run the comments are classified one after the other in
\* input order: the classification of comment i+1 has not begun before that of
\* comment i has resolved and the loop has taken its result.
C2_Sequential ==
  \A r \in Runs :
    /\ \A i \in 1..MaxItems :
         call[<<r, i>>].ctm # "none" =>
           /\ i <= Len(fetched[r])
           /\ call[<<r, i>>].text = fetched[r][i].text
           /\ \A j \in 1..(i - 1) :
                call[<<r, j>>].ctm = "resolved" /\ j <= Len(analyzed[r])
    /\ Cardinality({i \in 1..MaxItems : call[<<r, i>>].ctm = "pending"}) <= 1

\* the third comment's classification is under way, the first two are done
C2_Witness ==
  /\ call[<<1, 3>>].ctm = "pending"
  /\ call[<<1, 1>>].ctm = "resolved"
  /\ call[<<1, 2>>].ctm = "resolved"
  /\ Len(analyzed[1]) = 2

\* snapshot s of run r has exactly its first k comments resolved, carrying
\* their results, the others analyzing, all comments present in input order
SnapshotAt(r, s, k) ==
  /\ Len(s) = Len(fetched[r])
  /\ \A j \in 1..Len(s) :
       /\ s[j].id = fetched[r][j].id
       /\ s[j].text = fetched[r][j].text
       /\ j <= k => /\ ~s[j].isAnalyzing
                    /\ s[j].hasScore
                    /\ s[j].isToxic = call[<<r, j>>].isToxic
                    /\ s[j].toxicityScore = call[<<r, j>>].toxicityScore
       /\ j > k => s[j].isAnalyzing /\ ~s[j].hasScore /\ ~s[j].isToxic

\* C3 as stated: a run over n comments calls setComments exactly n times, the
\* k-th call (k = 1..n) with comments 0..k-1 resolved and the others analyzing.
C3_ExactlyNSnapshots ==
  \A r \in Runs :
    (runPc[r] = "done" /\ FetchOk(r)) =>
      /\ Len(published[r]) = Len(fetched[r])
      /\ \A k \in 1..Len(published[r]) : SnapshotAt(r, published[r][k], k)

\* C3, amended: a run over n comments calls setComments exactly n + 1 times:
\* first with every comment analyzing, then once after each comment, the call
\* after comment k (k = 1..n) with comments 0..k-1 resolved and the others
\* analyzing, all n comments present in input order.
C3_SnapshotPerItemPlusInitial ==
  \A r \in Runs :
    FetchOk(r) =>
      /\ Len(published[r]) = Len(analyzed[r]) + 1
      /\ runPc[r] = "done" => Len(published[r]) = Len(fetched[r]) + 1
      /\ \A k \in 0..(Len(published[r]) - 1) : SnapshotAt(r, published[r][k + 1], k)
      /\ comments = published[r][Len(published[r])]

\* a run over three comments has ended
C3_Witness ==
  /\ runPc[1] = "done"
  /\ Len(fetched[1]) = 3
  /\ Len(published[1]) = 4

\* run r has ended with every comment analyzed, in input order
RunComplete(r) ==
  /\ runPc[r] = "done"
  /\ Len(analyzed[r]) = Len(fetched[r])
  /\ \A i \in 1..Len(analyzed[r]) :
       analyzed[r][i].id = fetched[r][i].id /\ ~analyzed[r][i].isAnalyzing
  /\ comments = analyzed[r]
  /\ loading = FALSE

\* C4: once a run has its comment list it runs to completion: it ends with
\* every comment in input order, none analyzing, and loading is false.
C4_RunsToCompletion == \A r \in Runs : FetchOk(r) ~> RunComplete(r)

\* a run over three comments is complete
C4_Witness == RunComplete(1) /\ Len(fetched[1]) = 3

\* C5: tf.loadLayersModel is invoked at most once and `model` is written at
\* most once, whatever the interleaving of the loadAndPredict calls.
C5_AtMostOneLoad == loadCalls <= 1 /\ modelWrites <= 1

\* C6: once a load attempt has failed, no later step starts another load, and
\* every classification call begun after the failure returns the keyword
\* fallback at once, in App and in YouTubeComments.
C6_NoRetryAfterFailure ==
  [][loadFailed =>
       /\ loadCalls' = loadCalls
       /\ \A c \in CheckCalls :
            (call[c].ctm = "none" /\ call'[c].ctm # "none") =>
              /\ call'[c].ctm = "resolved"
              /\ call'[c].toxicityScore = Zero
              /\ call'[c].isToxic = checkToxicityFallback(call'[c].text)]_vars

\* C7: a result that carries a genuine model score has isToxic exactly when
\* the score is above 50 (50 itself is not toxic), and the score is the
\* model's index-1 output times 100.
C7_StrictThreshold ==
  \A c \in CheckCalls :
    (call[c].ctm = "resolved" /\ call[c].outcome = "prob") =>
      LET s == call[c].toxicityScore
          p == call[c].dataArray1
      IN /\ s[2] > 0
         /\ s[1] * p[2] = 100 * p[1] * s[2]
         /\ call[c].isToxic <=> (s[1] > 50 * s[2])
         /\ (s[1] = 50 * s[2]) => ~call[c].isToxic

\* a score of exactly 50 and a score above 50 have been returned
C7_Witness ==
  /\ \E c \in CheckCalls :
       /\ call[c].ctm = "resolved" /\ call[c].outcome = "prob"
       /\ call[c].toxicityScore[1] = 50 * call[c].toxicityScore[2]
  /\ \E c \in CheckCalls :
       /\ call[c].ctm = "resolved" /\ call[c].outcome = "prob"
       /\ call[c].isToxic

\* the outcomes that are failures of loading or inference
Failures == {"loadRejected", "predictThrows", "short", "notLoaded"}

\* C8: on any failure of loading or inference the result is toxicityScore 0
\* and isToxic exactly when the lower-cased text contains a toxic word; the
\* empty text gives {false, 0}.
C8_FallbackOnAnyFailure ==
  \A c \in CheckCalls :
    (call[c].ctm = "resolved" /\ call[c].outcome \in Failures) =>
      /\ call[c].toxicityScore = Zero
      /\ call[c].isToxic = checkToxicityFallback(call[c].text)
      /\ call[c].text = <<>> => ~call[c].isToxic

\* C9: a failure of inference for one comment affects only that comment: in
\* the run's sequence the comment whose inference threw carries the fallback
\* values, every comment whose inference returned a score carries that score,
\* also after a failure, and the run ends with all comments and without error.
C9_FailureIsPerItem ==
  \A r \in Runs :
    /\ \A i \in 1..Len(analyzed[r]) :
         LET a == analyzed[r][i]
             rec == call[<<r, i>>]
         IN /\ a.id = fetched[r][i].id
            /\ rec.outcome = "predictThrows" =>
                 /\ a.toxicityScore = Zero
                 /\ a.isToxic = checkToxicityFallback(fetched[r][i].text)
            /\ rec.outcome = "prob" =>
                 /\ a.toxicityScore = Times100(rec.dataArray1)
                 /\ a.isToxic = (a.toxicityScore[1] > 50 * a.toxicityScore[2])
    /\ (runPc[r] = "done" /\ FetchOk(r)) =>
         Len(analyzed[r]) = Len(fetched[r]) /\ ~error

\* three comments, the model loaded throughout: inference threw for the second
\* and returned a score for the first and the third
C9_Witness ==
  /\ runPc[1] = "done"
  /\ Len(analyzed[1]) = 3
  /\ call[<<1, 1>>].outcome = "prob"
  /\ call[<<1, 2>>].outcome = "predictThrows"
  /\ call[<<1, 3>>].outcome = "prob"
  /\ analyzed[1][2].toxicityScore = Zero
  /\ analyzed[1][3].toxicityScore = Times100(call[<<1, 3>>].dataArray1)

\* C14: every tensor a loadAndPredict call allocates (the input tensor of
\* tokenize, the output tensor of model.predict) is released before the call
\* completes, whether it returns or throws: a completed call holds no live
\* tensor.
C14_TensorsReleased ==
  \A c \in CallIds :
    call[c].lap \in {"fulfilled", "rejected"} => call[c].tensors = 0

\* the run for the newest videoId
Newest(r) == runPc[r] # "idle" /\ \A q \in Runs : q > r => runPc[q] = "idle"

\* every comment of list was fetched by run r
ItemsOf(r, list) == \A j \in 1..Len(list) : list[j].id[1] = r

\* C16: when the videoId changes while a run is in progress, the earlier run
\* never overwrites the later run's state: once the newest run has published
\* its first snapshot the displayed comments are that run's items only, and
\* loading is not false before the newest run has finished.
C16_NewestRunOwnsState ==
  \A r \in Runs :
    Newest(r) =>
      /\ FetchOk(r) => ItemsOf(r, comments)
      /\ runPc[r] \in {"fetching", "classifying"} => loading

\* C17: whenever a loadComments run finishes successfully, error is null: the
\* failure of an earlier run does not keep the error displayed.
C17_ErrorClearedOnSuccess ==
  [][\A r \in Runs :
       (runPc[r] # "done" /\ runPc'[r] = "done" /\ published'[r] # <<>>)
         => error' = FALSE]_vars

===========================================================================
